---- MODULE Spec2Model ----
(***************************************************************************)
(* Memory management of os_truth (src/kernel/memory.c): physical frame     *)
(* pools, virtual address trackers, the two-level page table reached by    *)
(* the self-mapping, the page-granular allocation service and the arena    *)
(* heap allocator (sys_malloc / sys_free).                                 *)
(*                                                                         *)
(* Representation.  Physical addresses are byte addresses (integers).      *)
(* A virtual address is a record [pg, off] with pg = vaddr >> 12 and       *)
(* off = vaddr & 0xfff, because kernel virtual addresses (0xc0100000) do   *)
(* not fit the model checker's integers.  A bitmap is the set of indices   *)
(* of its set bits together with its length in bytes.                      *)
(***************************************************************************)
EXTENDS Integers, Sequences, FiniteSets, TLC

VARIABLES
    kernel_pool,     \* struct pool kernel_pool
    user_pool,       \* struct pool user_pool
    kernel_vaddr,    \* struct virtual_addr kernel_vaddr
    userprog_vaddr,  \* task -> cur->userprog_vaddr
    pde,             \* page directory entries that are not zero
    pte,             \* page table entries that are not zero, by table frame
    arenas,          \* arena headers, by address space and page
    free_lists,      \* <<owner, desc_idx>> -> free_list of the descriptor
    locks,           \* holder of kernel_pool.lock and of user_pool.lock
    panic,           \* "" or the assertion that halted the system
    live,            \* history: allocations handed out and not yet freed
    last,            \* history: the last call, its arguments and its result
    ncalls,          \* history: number of calls made so far
    pc,              \* thread -> position inside its call (SpecLock)
    loc,             \* thread -> its local variables (SpecLock)
    intr_status,     \* interrupt flag of the processor: INTR_ON or INTR_OFF
    running          \* the thread the processor runs (SpecIntr)

vars == <<kernel_pool, user_pool, kernel_vaddr, userprog_vaddr, pde, pte,
          arenas, free_lists, locks, panic, live, last, ncalls, pc, loc,
          intr_status, running>>

(***************************************************************************)
(* Program constants                                                       *)
(***************************************************************************)
PG_SIZE == 4096
\* sizeof(struct arena): a pointer, a uint32_t and a bool on a 32-bit target
SIZEOF_ARENA == 12
\* number of size classes: 16, 32, ... up to the largest block, 1024
DESC_CNT == 7
\* the low 1 MB that mem_pool_init skips (0x100000)
LOW_MEM == 1048576
\* page frames taken by the page directory and the page tables of the loader
PAGE_TABLE_PAGES == 256
\* K_HEAP_START 0xc0100000, as a page number
K_HEAP_START_PG == 786688
\* 0xc0000000 - PG_SIZE, the page of the first user stack, as a page number
USER_STACK_PG == 786431
\* sizes above it take the large path of sys_malloc
LARGE_THRESHOLD == 1024
\* bound of malloc_page's assertion on pg_cnt
MAX_PG_CNT == 3840
\* first physical address mfree_page accepts (0x102000)
MFREE_LOW == 1057792
\* base of a user task's virtual address tracker (0x8048000), as a page number
USER_VADDR_START_PG == 32840
\* first pde index of the kernel part of every page directory (0xc0000000 >> 22)
KERNEL_PDE == 768
\* PG_US_U | PG_RW_W | PG_P_1
PG_ATTR == 7

(***************************************************************************)
(* Bounds of the model                                                     *)
(***************************************************************************)
\* page frames of RAM above used_mem in the machine the state machine runs on
MemPages == 16
\* bytes of a user task's virtual address bitmap
UserVBytes == 1
\* calls made in one run of the state machine
MaxCalls == 3

NULL == 0
NULLV == [pg |-> 0, off |-> 0]
PF_KERNEL == 1
PF_USER == 2

KThread == "kmain"
UTasks == {"uprog"}
Tasks == {KThread} \cup UTasks
\* a second user task, for the runs with two user processes
UTasks2 == UTasks \cup {"uprog2"}
\* cur->pgdir == NULL for a kernel thread
HasPgdir(t) == t # KThread

Min(S) == CHOOSE x \in S : \A y \in S : x <= y
DIV_ROUND_UP(x, step) == (x + step - 1) \div step
U16(x) == x % 65536

(***************************************************************************)
(* Bitmap primitive (bitmap.h)                                             *)
(***************************************************************************)
bitmap_init(len) == [bits |-> {}, btmp_bytes_len |-> len]

\* index of the first run of cnt clear bits, -1 when there is none
bitmap_scan(btmp, cnt) ==
    LET n == btmp.btmp_bytes_len * 8
        fit == {i \in 0..(n - cnt) :
                   \A j \in i..(i + cnt - 1) : j \notin btmp.bits}
    IN  IF fit = {} THEN -1 ELSE Min(fit)

bitmap_set(btmp, idx, value) ==
    [btmp EXCEPT !.bits = IF value = 1 THEN @ \cup {idx} ELSE @ \ {idx}]

(***************************************************************************)
(* mem_pool_init                                                           *)
(***************************************************************************)
used_mem == PG_SIZE * PAGE_TABLE_PAGES + LOW_MEM

mem_pool_init(all_mem) ==
    LET free_mem == all_mem - used_mem
        all_free_pages == U16(free_mem \div PG_SIZE)
        kernel_free_pages == U16(all_free_pages \div 2)
        user_free_pages == U16(all_free_pages - kernel_free_pages)
        kbm_length == kernel_free_pages \div 8
        ubm_length == user_free_pages \div 8
        kp_start == used_mem
        up_start == kp_start + kernel_free_pages * PG_SIZE
    IN  [kernel_pool |-> [pool_bitmap |-> bitmap_init(kbm_length),
                          phy_addr_start |-> kp_start,
                          pool_size |-> kernel_free_pages * PG_SIZE],
         user_pool |-> [pool_bitmap |-> bitmap_init(ubm_length),
                        phy_addr_start |-> up_start,
                        pool_size |-> user_free_pages * PG_SIZE],
         kernel_vaddr |-> [vaddr_bitmap |-> bitmap_init(kbm_length),
                           vaddr_start |-> K_HEAP_START_PG]]

\* the machine the state machine runs on
mem_bytes_total == used_mem + MemPages * PG_SIZE

(***************************************************************************)
(* Physical frame pools: palloc, pfree                                     *)
(***************************************************************************)
\* mutant: the bit found by the scan is not set
palloc_noset(m_pool) ==
    LET bit_idx == bitmap_scan(m_pool.pool_bitmap, 1)
    IN  IF bit_idx = -1
        THEN [ret |-> NULL, pool |-> m_pool]
        ELSE [ret |-> bit_idx * PG_SIZE + m_pool.phy_addr_start,
              pool |-> m_pool]

palloc(m_pool) ==
    LET bit_idx == bitmap_scan(m_pool.pool_bitmap, 1)
    IN  IF bit_idx = -1
        THEN [ret |-> NULL, pool |-> m_pool]
        ELSE [ret |-> bit_idx * PG_SIZE + m_pool.phy_addr_start,
              pool |-> [m_pool EXCEPT
                          !.pool_bitmap = bitmap_set(@, bit_idx, 1)]]

\* the two pools after pfree(pg_phy_addr)
pfree(kp, up, pg_phy_addr) ==
    IF pg_phy_addr >= up.phy_addr_start
    THEN [kernel_pool |-> kp,
          user_pool |-> [up EXCEPT !.pool_bitmap =
              bitmap_set(@, (pg_phy_addr - up.phy_addr_start) \div PG_SIZE, 0)]]
    ELSE [kernel_pool |-> [kp EXCEPT !.pool_bitmap =
              bitmap_set(@, (pg_phy_addr - kp.phy_addr_start) \div PG_SIZE, 0)],
          user_pool |-> up]

(***************************************************************************)
(* The machine state as one record, so that a handler is a function from   *)
(* machine states to machine states.  nofrm is history: a palloc of the    *)
(* current call has returned NULL; nlock is history: the number of         *)
(* lock_acquire calls the current call has made.                           *)
(***************************************************************************)
Machine ==
    [kernel_pool |-> kernel_pool, user_pool |-> user_pool,
     kernel_vaddr |-> kernel_vaddr, userprog_vaddr |-> userprog_vaddr,
     pde |-> pde, pte |-> pte, arenas |-> arenas, free_lists |-> free_lists,
     locks |-> locks, panic |-> panic, nofrm |-> FALSE, nlock |-> 0,
     intr_status |-> intr_status]

Put(f, k, v) == [x \in DOMAIN f \cup {k} |-> IF x = k THEN v ELSE f[x]]
Get(f, k) == IF k \in DOMAIN f THEN f[k] ELSE 0
Halt(M, why) == [M EXCEPT !.panic = why]
Halted(M) == M.panic # ""

\* interrupt control: intr_get_status reads the flag, intr_disable clears it
\* and intr_set_status sets it to the status given
intr_get_status(M) == M.intr_status
intr_disable(M) == [M EXCEPT !.intr_status = "INTR_OFF"]
intr_set_status(M, status) == [M EXCEPT !.intr_status = status]

(***************************************************************************)
(* Page table mapper                                                       *)
(***************************************************************************)
PDE_IDX(pg) == pg \div 1024
PTE_IDX(pg) == pg % 1024

\* the page directory the loader built: entries 768..1022 point to the 255
\* page tables that follow the directory, entry 1023 to the directory itself
boot_pde(idx) ==
    IF idx >= KERNEL_PDE /\ idx < 1023
    THEN LOW_MEM + PG_SIZE * (1 + idx - KERNEL_PDE) + PG_ATTR
    ELSE IF idx = 1023 THEN LOW_MEM + PG_ATTR ELSE 0

\* pde_ptr(vaddr) in the address space of cur: the kernel part of every page
\* directory is the same
pde_ptr(cur, pg) ==
    <<IF PDE_IDX(pg) >= KERNEL_PDE THEN "kernel" ELSE cur, PDE_IDX(pg)>>

read_pde(M, cur, pg) ==
    IF pde_ptr(cur, pg) \in DOMAIN M.pde
    THEN M.pde[pde_ptr(cur, pg)]
    ELSE IF PDE_IDX(pg) >= KERNEL_PDE THEN boot_pde(PDE_IDX(pg)) ELSE 0

Present(entry) == entry % 2 = 1
FrameOf(entry) == entry - (entry % PG_SIZE)

\* pte_ptr(vaddr): the self-mapping reaches the entry PTE_IDX of the table
\* frame the directory entry refers to
pte_ptr(M, cur, pg) == <<FrameOf(read_pde(M, cur, pg)), PTE_IDX(pg)>>

read_pte(M, cur, pg) == Get(M.pte, pte_ptr(M, cur, pg))

\* the page walk of the processor finds both entries present
Mapped(M, cur, pg) == Present(read_pde(M, cur, pg)) /\ Present(read_pte(M, cur, pg))

\* memset of one physical frame to zero
zero_frame(M, frame) ==
    [M EXCEPT !.pte = [k \in {x \in DOMAIN @ : x[1] # frame} |-> @[k]],
              !.arenas = [k \in DOMAIN @ \ {frame} |-> @[k]]]

page_table_add(M, cur, pg, page_phyaddr) ==
    IF Present(read_pde(M, cur, pg))
    THEN IF Present(read_pte(M, cur, pg))
         THEN Halt(M, "page_table_add: pte present")
         ELSE [M EXCEPT !.pte = Put(@, pte_ptr(M, cur, pg),
                                    page_phyaddr + PG_ATTR)]
    ELSE LET r == palloc(M.kernel_pool)
             pde_phyaddr == r.ret
             M1 == [M EXCEPT !.kernel_pool = r.pool,
                             !.nofrm = @ \/ (r.ret = NULL),
                             !.pde = Put(@, pde_ptr(cur, pg),
                                         pde_phyaddr + PG_ATTR)]
             M2 == zero_frame(M1, pde_phyaddr)
         IN  [M2 EXCEPT !.pte = Put(@, pte_ptr(M2, cur, pg),
                                    page_phyaddr + PG_ATTR)]

\* mutant: the attribute bits of the entry are not masked off
addr_v2p_nomask(M, cur, pg, off) ==
    read_pte(M, cur, pg) + off

\* addr_v2p(vaddr) for vaddr = pg * PG_SIZE + off
addr_v2p(M, cur, pg, off) ==
    FrameOf(read_pte(M, cur, pg)) + off

page_table_pte_remove(M, cur, pg) ==
    IF Present(read_pte(M, cur, pg))
    THEN [M EXCEPT !.pte = Put(@, pte_ptr(M, cur, pg),
                               read_pte(M, cur, pg) - 1)]
    ELSE M

(***************************************************************************)
(* Virtual address trackers                                                *)
(***************************************************************************)
\* vaddr_get: ret is the first page of the run, 0 for NULL
vaddr_get(M, cur, pf, pg_cnt) ==
    IF pf = PF_KERNEL
    THEN LET bit_idx_start == bitmap_scan(M.kernel_vaddr.vaddr_bitmap, pg_cnt)
         IN  IF bit_idx_start = -1
             THEN [M |-> M, ret |-> NULL]
             ELSE [M |-> [M EXCEPT !.kernel_vaddr.vaddr_bitmap.bits =
                              @ \cup (bit_idx_start..(bit_idx_start + pg_cnt - 1))],
                   ret |-> M.kernel_vaddr.vaddr_start + bit_idx_start]
    ELSE LET uv == M.userprog_vaddr[cur]
             bit_idx_start == bitmap_scan(uv.vaddr_bitmap, pg_cnt)
             vaddr_start == uv.vaddr_start + bit_idx_start
             M1 == [M EXCEPT !.userprog_vaddr[cur].vaddr_bitmap.bits =
                        @ \cup (bit_idx_start..(bit_idx_start + pg_cnt - 1))]
         IN  IF bit_idx_start = -1
             THEN [M |-> M, ret |-> NULL]
             ELSE IF ~(vaddr_start < USER_STACK_PG)
                  THEN [M |-> Halt(M1, "vaddr_get: user stack"), ret |-> NULL]
                  ELSE [M |-> M1, ret |-> vaddr_start]

vaddr_remove(M, cur, pf, pg, pg_cnt) ==
    IF pf = PF_KERNEL
    THEN LET bit_idx_start == pg - M.kernel_vaddr.vaddr_start
         IN  [M EXCEPT !.kernel_vaddr.vaddr_bitmap.bits =
                  @ \ (bit_idx_start..(bit_idx_start + pg_cnt - 1))]
    ELSE LET bit_idx_start == pg - M.userprog_vaddr[cur].vaddr_start
         IN  [M EXCEPT !.userprog_vaddr[cur].vaddr_bitmap.bits =
                  @ \ (bit_idx_start..(bit_idx_start + pg_cnt - 1))]

(***************************************************************************)
(* Page-granular allocation service                                        *)
(***************************************************************************)
\* pf & PF_KERNEL ? &kernel_pool : &user_pool
PoolOf(pf) == IF pf = PF_KERNEL THEN "kernel" ELSE "user"
GetPool(M, pf) == IF pf = PF_KERNEL THEN M.kernel_pool ELSE M.user_pool
SetPool(M, pf, pool) ==
    IF pf = PF_KERNEL THEN [M EXCEPT !.kernel_pool = pool]
                      ELSE [M EXCEPT !.user_pool = pool]

\* the while loop of malloc_page: cnt pages are left, pg is the next one
RECURSIVE malloc_page_loop(_, _, _, _, _)
malloc_page_loop(M, cur, pf, pg, cnt) ==
    IF cnt = 0 \/ Halted(M)
    THEN [M |-> M, ok |-> TRUE]
    ELSE LET r == palloc(GetPool(M, pf))
         IN  IF r.ret = NULL
             THEN [M |-> [M EXCEPT !.nofrm = TRUE], ok |-> FALSE]
             ELSE malloc_page_loop(
                      page_table_add(SetPool(M, pf, r.pool), cur, pg, r.ret),
                      cur, pf, pg + 1, cnt - 1)

\* mutant: a failed frame allocation gives the reserved virtual pages back
malloc_page_rollback(M, cur, pf, pg_cnt) ==
    IF ~(pg_cnt > 0 /\ pg_cnt < MAX_PG_CNT)
    THEN [M |-> Halt(M, "malloc_page: pg_cnt"), ret |-> NULL]
    ELSE LET v == vaddr_get(M, cur, pf, pg_cnt)
         IN  IF v.ret = NULL
             THEN v
             ELSE LET l == malloc_page_loop(v.M, cur, pf, v.ret, pg_cnt)
                  IN  [M |-> IF l.ok THEN l.M
                             ELSE vaddr_remove(l.M, cur, pf, v.ret, pg_cnt),
                       ret |-> IF l.ok THEN v.ret ELSE NULL]

\* ret is the first page of the run, 0 for NULL
malloc_page(M, cur, pf, pg_cnt) ==
    IF ~(pg_cnt > 0 /\ pg_cnt < MAX_PG_CNT)
    THEN [M |-> Halt(M, "malloc_page: pg_cnt"), ret |-> NULL]
    ELSE LET v == vaddr_get(M, cur, pf, pg_cnt)
         IN  IF v.ret = NULL
             THEN v
             ELSE LET l == malloc_page_loop(v.M, cur, pf, v.ret, pg_cnt)
                  IN  [M |-> l.M, ret |-> IF l.ok THEN v.ret ELSE NULL]

lock_acquire(M, cur, which) == [M EXCEPT !.locks[which] = cur, !.nlock = @ + 1]
\* mutant: the lock stays with its holder
lock_release_kept(M, which) == M
lock_release(M, which) == [M EXCEPT !.locks[which] = ""]

\* memset(vaddr, 0, pg_cnt * PG_SIZE) through the mappings of cur
RECURSIVE zero_pages(_, _, _, _)
zero_pages(M, cur, pg, pg_cnt) ==
    IF pg_cnt = 0 THEN M
    ELSE zero_pages(zero_frame(M, addr_v2p(M, cur, pg, 0)), cur, pg + 1, pg_cnt - 1)

\* get_kernel_pages (pf = PF_KERNEL) and get_user_pages (pf = PF_USER)
get_pages(M, cur, pf, pg_cnt) ==
    LET M1 == lock_acquire(M, cur, PoolOf(pf))
        r == malloc_page(M1, cur, pf, pg_cnt)
    IN  IF Halted(r.M) THEN r
        ELSE [M |-> lock_release(
                        IF r.ret # NULL THEN zero_pages(r.M, cur, r.ret, pg_cnt)
                                        ELSE r.M, PoolOf(pf)),
              ret |-> r.ret]

get_kernel_pages(M, cur, pg_cnt) == get_pages(M, cur, PF_KERNEL, pg_cnt)
get_user_pages(M, cur, pg_cnt) == get_pages(M, cur, PF_USER, pg_cnt)

\* get_a_page(pf, vaddr) for a page-aligned vaddr at or above the tracker's base
get_a_page(M, cur, pf, pg) ==
    LET M1 == lock_acquire(M, cur, PoolOf(pf))
        M2 == IF HasPgdir(cur) /\ pf = PF_USER
              THEN LET bit_idx == pg - M1.userprog_vaddr[cur].vaddr_start
                   IN  IF ~(bit_idx > 0)
                       THEN Halt(M1, "get_a_page: bit_idx")
                       ELSE [M1 EXCEPT !.userprog_vaddr[cur].vaddr_bitmap =
                                           bitmap_set(@, bit_idx, 1)]
              ELSE IF ~HasPgdir(cur) /\ pf = PF_KERNEL
              THEN LET bit_idx == pg - M1.kernel_vaddr.vaddr_start
                   IN  IF ~(bit_idx > 0)
                       THEN Halt(M1, "get_a_page: bit_idx")
                       ELSE [M1 EXCEPT !.kernel_vaddr.vaddr_bitmap =
                                           bitmap_set(@, bit_idx, 1)]
              ELSE Halt(M1, "get_a_page: pool and caller differ")
        r == palloc(GetPool(M2, pf))
        M3 == page_table_add(SetPool(M2, pf, r.pool), cur, pg, r.ret)
    IN  IF Halted(M2) THEN [M |-> M2, ret |-> NULL]
        ELSE IF r.ret = NULL
        THEN [M |-> lock_release([M2 EXCEPT !.nofrm = TRUE], PoolOf(pf)),
              ret |-> NULL]
        ELSE IF Halted(M3) THEN [M |-> M3, ret |-> NULL]
        ELSE [M |-> lock_release(M3, PoolOf(pf)), ret |-> pg]

\* the loop of mfree_page over the pages of the run, in the branch chosen by
\* the first frame (user: TRUE for the user pool branch)
RECURSIVE mfree_page_loop(_, _, _, _, _)
mfree_page_loop(M, cur, user, pg, cnt) ==
    IF cnt = 0 THEN M
    ELSE LET pg_phy_addr == addr_v2p(M, cur, pg, 0)
             ok == IF user
                   THEN (pg_phy_addr \div PG_SIZE) % 2 = 0
                        /\ pg_phy_addr >= M.user_pool.phy_addr_start
                   ELSE pg_phy_addr % PG_SIZE = 0
                        /\ pg_phy_addr >= M.kernel_pool.phy_addr_start
                        /\ pg_phy_addr < M.user_pool.phy_addr_start
             pools == pfree(M.kernel_pool, M.user_pool, pg_phy_addr)
             M1 == [M EXCEPT !.kernel_pool = pools.kernel_pool,
                             !.user_pool = pools.user_pool]
         IN  IF ~ok
             THEN Halt(M, IF user THEN "mfree_page: user frame"
                                  ELSE "mfree_page: kernel frame")
             ELSE mfree_page_loop(page_table_pte_remove(M1, cur, pg),
                                  cur, user, pg + 1, cnt - 1)

\* mfree_page(pf, _vaddr, pg_cnt) for _vaddr = pg * PG_SIZE + off
mfree_page(M, cur, pf, pg, off, pg_cnt) ==
    IF ~(pg_cnt >= 1 /\ off = 0)
    THEN Halt(M, "mfree_page: arguments")
    ELSE LET pg_phy_addr == addr_v2p(M, cur, pg, 0)
         IN  IF ~(pg_phy_addr % PG_SIZE = 0 /\ pg_phy_addr >= MFREE_LOW)
             THEN Halt(M, "mfree_page: low frame")
             ELSE LET M1 == mfree_page_loop(M, cur,
                                pg_phy_addr >= M.user_pool.phy_addr_start,
                                pg, pg_cnt)
                  IN  IF Halted(M1) THEN M1
                      ELSE vaddr_remove(M1, cur, pf, pg, pg_cnt)

(***************************************************************************)
(* Arena heap allocator                                                    *)
(***************************************************************************)
RECURSIVE Pow2(_)
Pow2(n) == IF n = 0 THEN 1 ELSE 2 * Pow2(n - 1)

\* block_desc_init: descriptor desc_idx of every descriptor array
block_desc_init(desc_idx) ==
    LET block_size == U16(16 * Pow2(desc_idx))
    IN  [block_size |-> block_size,
         blocks_per_arena |-> (PG_SIZE - SIZEOF_ARENA) \div block_size]

\* the owner of the descriptor array sys_malloc uses: k_block_descs for a
\* kernel thread, cur->u_block_desc for a user task
DescsOf(cur) == IF HasPgdir(cur) THEN cur ELSE "kernel"
PFOf(cur) == IF HasPgdir(cur) THEN PF_USER ELSE PF_KERNEL
NoDesc == [owner |-> "", idx |-> -1]
NoArena == [desc |-> NoDesc, cnt |-> 0, large |-> FALSE]

\* arena2block(a, idx): a is the page of the arena
arena2block(desc, a_pg, idx) ==
    [pg |-> a_pg, off |-> SIZEOF_ARENA + idx * block_desc_init(desc.idx).block_size]

\* block2arena(b): the page of the block
block2arena(b) == b.pg

\* the arena header at page a_pg of the address space of cur
ArenaAt(M, cur, a_pg) ==
    LET f == addr_v2p(M, cur, a_pg, 0)
    IN  IF f \in DOMAIN M.arenas THEN M.arenas[f] ELSE NoArena
SetArena(M, cur, a_pg, hdr) ==
    [M EXCEPT !.arenas = Put(@, addr_v2p(M, cur, a_pg, 0), hdr)]

InSeq(x, q) == \E i \in 1..Len(q) : q[i] = x
Without(q, x) == SelectSeq(q, LAMBDA y : y # x)

\* mutant: the comparison of the search is strict
desc_search_strict(size) ==
    Min({i \in 0..(DESC_CNT - 1) : size < block_desc_init(i).block_size}
        \cup {DESC_CNT})

\* the for loop of sys_malloc over the size classes: the index it stops at
desc_search(size) ==
    Min({i \in 0..(DESC_CNT - 1) : size <= block_desc_init(i).block_size}
        \cup {DESC_CNT})

\* one turn of the partition loop of sys_malloc: block block_idx of the
\* arena is appended to the free list of its descriptor
split_block(M, desc, a_pg, block_idx) ==
    LET b == arena2block(desc, a_pg, block_idx)
        key == <<desc.owner, desc.idx>>
    IN  IF InSeq(b, M.free_lists[key])
        THEN Halt(M, "sys_malloc: block on free list")
        ELSE [M EXCEPT !.free_lists[key] = Append(@, b)]

\* the partition loop of sys_malloc, from block_idx on
RECURSIVE split_arena(_, _, _, _)
split_arena(M, desc, a_pg, block_idx) ==
    IF block_idx >= block_desc_init(desc.idx).blocks_per_arena \/ Halted(M)
    THEN M
    ELSE split_arena(split_block(M, desc, a_pg, block_idx),
                     desc, a_pg, block_idx + 1)

\* the pool size sys_malloc compares size with
CallerPoolSize(M, cur) ==
    IF HasPgdir(cur) THEN M.user_pool.pool_size ELSE M.kernel_pool.pool_size

sys_malloc_large(M, cur, size) ==
    LET PF == PFOf(cur)
        page_cnt == DIV_ROUND_UP(size + SIZEOF_ARENA, PG_SIZE)
        r == malloc_page(M, cur, PF, page_cnt)
    IN  IF Halted(r.M) THEN [M |-> r.M, ret |-> NULLV]
        ELSE IF r.ret # NULL
        THEN [M |-> lock_release(
                        SetArena(zero_pages(r.M, cur, r.ret, page_cnt), cur, r.ret,
                                 [desc |-> NoDesc, cnt |-> page_cnt, large |-> TRUE]),
                        PoolOf(PF)),
              ret |-> [pg |-> r.ret, off |-> SIZEOF_ARENA]]
        ELSE [M |-> lock_release(r.M, PoolOf(PF)), ret |-> NULLV]

\* the tail of the small path: pop a block and count it out of its arena;
\* the memset of a block whose page is not mapped is a page fault
sys_malloc_pop(M, cur, key) ==
    LET b == Head(M.free_lists[key])
        a == block2arena(b)
        M1 == [M EXCEPT !.free_lists[key] = Tail(@)]
        hdr == ArenaAt(M1, cur, a)
    IN  IF ~Mapped(M1, cur, a)
        THEN [M |-> Halt(M1, "page fault"), ret |-> NULLV]
        ELSE [M |-> lock_release(
                        SetArena(M1, cur, a, [hdr EXCEPT !.cnt = @ - 1]),
                        PoolOf(PFOf(cur))),
              ret |-> b]

\* mutant: the new arena is partitioned with the interrupt flag left alone
new_arena_nointr(r, cur, desc) ==
    IF Halted(r.M) \/ r.ret = NULL
    THEN [M |-> r.M, ret |-> NULL, old_status |-> intr_get_status(r.M)]
    ELSE [M |-> SetArena(zero_pages(r.M, cur, r.ret, 1), cur, r.ret,
                    [desc |-> desc, large |-> FALSE,
                     cnt |-> block_desc_init(desc.idx).blocks_per_arena]),
          ret |-> r.ret, old_status |-> intr_get_status(r.M)]

\* the page r.ret that malloc_page returned becomes an arena: memset, the
\* header, and old_status = intr_disable()
new_arena(r, cur, desc) ==
    IF Halted(r.M) \/ r.ret = NULL
    THEN [M |-> r.M, ret |-> NULL, old_status |-> intr_get_status(r.M)]
    ELSE [M |-> intr_disable(
                    SetArena(zero_pages(r.M, cur, r.ret, 1), cur, r.ret,
                        [desc |-> desc, large |-> FALSE,
                         cnt |-> block_desc_init(desc.idx).blocks_per_arena])),
          ret |-> r.ret, old_status |-> intr_get_status(r.M)]

\* the small path when the free list is empty, up to the partition loop
sys_malloc_arena(M, cur, desc) ==
    new_arena(malloc_page(M, cur, PFOf(cur), 1), cur, desc)

\* after the partition loop left the machine M: intr_set_status(old_status),
\* then the pop
sys_malloc_restore(M, old_status, cur, desc) ==
    IF Halted(M) THEN [M |-> M, ret |-> NULLV]
    ELSE sys_malloc_pop(intr_set_status(M, old_status), cur,
                        <<desc.owner, desc.idx>>)

\* the small path once sys_malloc_arena gave r: NULL when no page was left,
\* else the partition loop and the rest
sys_malloc_split(r, cur, desc) ==
    IF Halted(r.M) THEN [M |-> r.M, ret |-> NULLV]
    ELSE IF r.ret = NULL
    THEN [M |-> lock_release(r.M, PoolOf(PFOf(cur))), ret |-> NULLV]
    ELSE sys_malloc_restore(split_arena(r.M, desc, r.ret, 0), r.old_status,
                            cur, desc)

sys_malloc_class(M, cur, desc) ==
    IF M.free_lists[<<desc.owner, desc.idx>>] = <<>>
    THEN sys_malloc_split(sys_malloc_arena(M, cur, desc), cur, desc)
    ELSE sys_malloc_pop(M, cur, <<desc.owner, desc.idx>>)

sys_malloc_small(M, cur, size) ==
    sys_malloc_class(M, cur, [owner |-> DescsOf(cur), idx |-> desc_search(size)])

\* mutant: a request of exactly the pool size passes the size test
sys_malloc_le(M, cur, size) ==
    IF ~(size > 0 /\ size <= CallerPoolSize(M, cur))
    THEN [M |-> M, ret |-> NULLV]
    ELSE LET M1 == lock_acquire(M, cur, PoolOf(PFOf(cur)))
         IN  IF size > LARGE_THRESHOLD
             THEN sys_malloc_large(M1, cur, size)
             ELSE sys_malloc_small(M1, cur, size)

\* mutant: a request of exactly the largest block size takes the large path
sys_malloc_ge(M, cur, size) ==
    IF ~(size > 0 /\ size < CallerPoolSize(M, cur))
    THEN [M |-> M, ret |-> NULLV]
    ELSE LET M1 == lock_acquire(M, cur, PoolOf(PFOf(cur)))
         IN  IF size >= LARGE_THRESHOLD
             THEN sys_malloc_large(M1, cur, size)
             ELSE sys_malloc_small(M1, cur, size)

sys_malloc(M, cur, size) ==
    IF ~(size > 0 /\ size < CallerPoolSize(M, cur))
    THEN [M |-> M, ret |-> NULLV]
    ELSE LET M1 == lock_acquire(M, cur, PoolOf(PFOf(cur)))
         IN  IF size > LARGE_THRESHOLD
             THEN sys_malloc_large(M1, cur, size)
             ELSE sys_malloc_small(M1, cur, size)

\* the loop of sys_free that unlinks every block of the arena
RECURSIVE unlink_arena(_, _, _, _)
unlink_arena(M, desc, a_pg, block_idx) ==
    IF block_idx >= block_desc_init(desc.idx).blocks_per_arena \/ Halted(M)
    THEN M
    ELSE LET b == arena2block(desc, a_pg, block_idx)
             key == <<desc.owner, desc.idx>>
         IN  IF ~InSeq(b, M.free_lists[key])
             THEN Halt(M, "sys_free: block not on free list")
             ELSE unlink_arena([M EXCEPT !.free_lists[key] = Without(@, b)],
                               desc, a_pg, block_idx + 1)

\* sys_free(ptr) for a pointer into a page that holds an arena header; the
\* read of a header whose page is not mapped is a page fault, and so is the
\* use of the free list of a NULL descriptor
sys_free(M, cur, ptr) ==
    IF ptr = NULLV THEN Halt(M, "sys_free: NULL")
    ELSE IF ~HasPgdir(cur) /\ ~(ptr.pg >= K_HEAP_START_PG)
    THEN Halt(M, "sys_free: below K_HEAP_START")
    ELSE LET PF == PFOf(cur)
             M1 == lock_acquire(M, cur, PoolOf(PF))
             a == block2arena(ptr)
             hdr == ArenaAt(M1, cur, a)
         IN  IF ~Mapped(M1, cur, a)
             THEN Halt(M1, "page fault")
             ELSE IF hdr.desc = NoDesc /\ ~hdr.large
             THEN Halt(M1, "sys_free: a->desc is NULL")
             ELSE IF hdr.desc = NoDesc /\ hdr.large
             THEN LET M2 == mfree_page(M1, cur, PF, a, 0, hdr.cnt)
                  IN  IF Halted(M2) THEN M2 ELSE lock_release(M2, PoolOf(PF))
             ELSE LET key == <<hdr.desc.owner, hdr.desc.idx>>
                      M2 == SetArena([M1 EXCEPT !.free_lists[key] = Append(@, ptr)],
                                     cur, a, [hdr EXCEPT !.cnt = @ + 1])
                      M3 == unlink_arena(M2, hdr.desc, a, 0)
                      M4 == mfree_page(M3, cur, PF, a, 0, 1)
                  IN  IF hdr.cnt + 1 = block_desc_init(hdr.desc.idx).blocks_per_arena
                      THEN IF Halted(M3) THEN M3
                           ELSE IF Halted(M4) THEN M4
                           ELSE lock_release(M4, PoolOf(PF))
                      ELSE lock_release(M2, PoolOf(PF))

(***************************************************************************)
(* The allocator as a state machine: one action per entry point, each the  *)
(* whole call made by the running thread cur.                              *)
(***************************************************************************)
Empty == [x \in {} |-> 0]
Owners == {"kernel"} \cup UTasks

\* page counts asked of the page service
RunLengths == {1, 2, 8}
\* page counts asked of malloc_page when it is called directly
DirectRuns == {2, 8}

\* sizes asked of sys_malloc
Sizes == {0, 1024, 1025, 5000, 30000, 32768}

Count(pool) == Cardinality(pool.pool_bitmap.bits)
VCount(M, cur) ==
    IF HasPgdir(cur) THEN Cardinality(M.userprog_vaddr[cur].vaddr_bitmap.bits)
                     ELSE Cardinality(M.kernel_vaddr.vaddr_bitmap.bits)

NoCall == [op |-> "none", cur |-> "", pf |-> 0, arg |-> 0, ptr |-> NULLV,
           ret |-> NULLV, nofrm |-> FALSE, frame |-> 0, fresh |-> TRUE,
           full |-> FALSE, k0 |-> 0, u0 |-> 0, v0 |-> 0, nlock |-> 0]

\* the call record: the counts are those of the state before the call
Call(op, cur, pf, arg, ptr, ret, M) ==
    [NoCall EXCEPT !.op = op, !.cur = cur, !.pf = pf, !.arg = arg, !.ptr = ptr,
                   !.ret = ret, !.nofrm = M.nofrm, !.nlock = M.nlock,
                   !.k0 = Count(kernel_pool), !.u0 = Count(user_pool),
                   !.v0 = IF cur # "" THEN VCount(Machine, cur) ELSE 0]

Install(M) ==
    /\ kernel_pool' = M.kernel_pool
    /\ user_pool' = M.user_pool
    /\ kernel_vaddr' = M.kernel_vaddr
    /\ userprog_vaddr' = M.userprog_vaddr
    /\ pde' = M.pde
    /\ pte' = M.pte
    /\ arenas' = M.arenas
    /\ free_lists' = M.free_lists
    /\ locks' = M.locks
    /\ panic' = M.panic
    /\ intr_status' = M.intr_status
    /\ UNCHANGED running

\* a call a thread has asked for: the operation, the pool flag, the size,
\* page count or page it passes, and for sys_free the allocation it frees
Req(op, pf, arg, a) == [op |-> op, pf |-> pf, arg |-> arg, a |-> a]
NoReq == Req("none", 0, 0, [kind |-> "none", cur |-> "", pf |-> 0, ptr |-> NULLV,
                            n |-> 0, size |-> 0])

\* the locals of a call in progress: the page reserved by vaddr_get, the bit
\* found by palloc's bitmap_scan and the frame it stands for, the same for the
\* palloc(&kernel_pool) of page_table_add
NoLocal == [pg |-> 0, bit_idx |-> -1, page_phyaddr |-> 0,
            pde_bit_idx |-> -1, pde_phyaddr |-> 0, scanning |-> "",
            size |-> 0, desc_idx |-> -1, a |-> 0, block_idx |-> 0,
            old_status |-> "", intr0 |-> "", call |-> NoReq, waited |-> FALSE]

\* the state mem_init leaves on a machine with all_mem bytes of RAM, with the
\* user tasks users created and none of them having allocated yet
InitMem(all_mem, users) ==
    /\ kernel_pool = mem_pool_init(all_mem).kernel_pool
    /\ user_pool = mem_pool_init(all_mem).user_pool
    /\ kernel_vaddr = mem_pool_init(all_mem).kernel_vaddr
    /\ userprog_vaddr = [t \in users |->
                            [vaddr_bitmap |-> bitmap_init(UserVBytes),
                             vaddr_start |-> USER_VADDR_START_PG]]
    /\ pde = Empty
    /\ pte = Empty
    /\ arenas = Empty
    /\ free_lists = [k \in ({"kernel"} \cup users) \X (0..(DESC_CNT - 1)) |-> <<>>]
    /\ locks = [kernel |-> "", user |-> ""]
    /\ panic = ""
    /\ live = {}
    /\ last = NoCall
    /\ ncalls = 0
    /\ pc = [t \in {KThread} \cup users |-> "idle"]
    /\ loc = [t \in {KThread} \cup users |-> NoLocal]

\* threads run with interrupts on unless they turn them off themselves
InitFor(all_mem, users) ==
    /\ InitMem(all_mem, users)
    /\ intr_status = "INTR_ON"
    /\ running = KThread

InitWith(all_mem) == InitFor(all_mem, UTasks)

InitMachine == InitWith(mem_bytes_total)

Init == InitMachine

Page(pg) == [pg |-> pg, off |-> 0]
Alloc(kind, cur, pf, n, size) ==
    [kind |-> kind, cur |-> cur, pf |-> pf, ptr |-> NULLV, n |-> n, size |-> size]

Running == panic = "" /\ ncalls < MaxCalls

\* the state after a call that returned r.ret and left the machine r.M;
\* a is the allocation the call hands out when it succeeds
Returned(op, cur, pf, arg, r, a) ==
    /\ Install(r.M)
    /\ last' = [Call(op, cur, pf, arg, NULLV, r.ret, r.M)
                  EXCEPT !.fresh = [a EXCEPT !.ptr = r.ret] \notin live]
    /\ live' = IF r.ret # NULLV /\ ~Halted(r.M) THEN live \cup {[a EXCEPT !.ptr = r.ret]} ELSE live
    /\ ncalls' = ncalls + 1
    /\ UNCHANGED <<pc, loc>>

\* the state after a call that left the machine M and hands nothing out
Installed(M, call) ==
    /\ Install(M)
    /\ last' = call
    /\ ncalls' = ncalls + 1
    /\ UNCHANGED <<live, pc, loc>>

\* the state after a call that freed allocation a and left the machine M
Freed(op, a, M) ==
    /\ Install(M)
    /\ last' = Call(op, a.cur, a.pf, IF a.kind = "heap" THEN a.size ELSE a.n,
                    a.ptr, NULLV, M)
    /\ live' = live \ {a}
    /\ ncalls' = ncalls + 1
    /\ UNCHANGED <<pc, loc>>

PagePtr(r) == [M |-> r.M, ret |-> Page(r.ret)]

SysMallocCall(cur, size) ==
    Returned("sys_malloc", cur, PFOf(cur), size, sys_malloc(Machine, cur, size),
                Alloc("heap", cur, PFOf(cur),
                      IF size > LARGE_THRESHOLD THEN DIV_ROUND_UP(size + SIZEOF_ARENA, PG_SIZE)
                                     ELSE 1,
                      size))
SysMalloc(cur, size) == Running /\ SysMallocCall(cur, size)

SysFreeCall(a) ==
    /\ a \in live /\ a.kind = "heap"
    /\ Freed("sys_free", a, sys_free(Machine, a.cur, a.ptr))
SysFree(a) == Running /\ SysFreeCall(a)

GetPages(cur, pf, pg_cnt) ==
    /\ Running
    /\ Returned(IF pf = PF_KERNEL THEN "get_kernel_pages" ELSE "get_user_pages",
                cur, pf, pg_cnt, PagePtr(get_pages(Machine, cur, pf, pg_cnt)),
                Alloc("pages", cur, pf, pg_cnt, 0))

MallocPage(cur, pf, pg_cnt) ==
    /\ Running
    /\ Returned("malloc_page", cur, pf, pg_cnt,
                PagePtr(malloc_page(Machine, cur, pf, pg_cnt)),
                Alloc("pages", cur, pf, pg_cnt, 0))

MfreePage(a) ==
    /\ Running /\ a \in live /\ a.kind \in {"pages", "page"}
    /\ Freed(IF a.kind = "pages" THEN "mfree_page" ELSE "mfree_page of get_a_page",
             a,
             mfree_page(Machine, a.cur, a.pf, a.ptr.pg, a.ptr.off, a.n))

\* the base page of the tracker get_a_page(pf, ...) marks
TrackerBase(pf) == IF pf = PF_KERNEL THEN K_HEAP_START_PG ELSE USER_VADDR_START_PG
\* calls of get_a_page: the caller, the pool and the page as an offset from
\* the base of the pool's tracker
GetAPageCalls ==
    {<<KThread, PF_KERNEL, 0>>, <<KThread, PF_KERNEL, 3>>, <<KThread, PF_USER, 3>>}
    \cup UNION {{<<u, PF_USER, 0>>, <<u, PF_USER, 3>>, <<u, PF_KERNEL, 3>>} : u \in UTasks}

GetAPage(cur, pf, pg) ==
    /\ Running
    /\ ~Mapped(Machine, cur, pg)
    /\ Returned("get_a_page", cur, pf, pg - TrackerBase(pf),
                PagePtr(get_a_page(Machine, cur, pf, pg)),
                Alloc("page", cur, pf, 1, 0))

\* the thread that calls the page service for pool pf
CallerOf(pf) == IF pf = PF_KERNEL THEN {KThread} ELSE UTasks

Next ==
    \/ \E cur \in Tasks, size \in Sizes : SysMalloc(cur, size)
    \/ \E a \in live : SysFree(a)
    \/ \E pf \in {PF_KERNEL, PF_USER}, n \in RunLengths :
          \E cur \in CallerOf(pf) : GetPages(cur, pf, n)
    \/ \E pf \in {PF_KERNEL, PF_USER}, n \in DirectRuns :
          \E cur \in CallerOf(pf) : MallocPage(cur, pf, n)
    \/ \E a \in live : MfreePage(a)
    \/ \E c \in GetAPageCalls : GetAPage(c[1], c[2], TrackerBase(c[2]) + c[3])

Spec == Init /\ [][Next]_vars

(***************************************************************************)
(* State predicates used by the properties                                 *)
(***************************************************************************)
OwnerPool(cur) == IF HasPgdir(cur) THEN user_pool ELSE kernel_pool
PoolFor(pf) == IF pf = PF_KERNEL THEN kernel_pool ELSE user_pool
FrameBitSet(pool, frame) ==
    /\ frame >= pool.phy_addr_start
    /\ (frame - pool.phy_addr_start) \div PG_SIZE \in pool.pool_bitmap.bits
VBitSet(cur, pf, pg) ==
    IF pf = PF_KERNEL
    THEN pg - kernel_vaddr.vaddr_start \in kernel_vaddr.vaddr_bitmap.bits
    ELSE pg - userprog_vaddr[cur].vaddr_start \in userprog_vaddr[cur].vaddr_bitmap.bits
\* the frame in the table entry of page pg, present or not
EntryFrame(cur, pg) == FrameOf(read_pte(Machine, cur, pg))
\* page pg of cur is unmapped and its frame and its tracker bit are free
PageReturned(cur, pf, pg) ==
    /\ ~Mapped(Machine, cur, pg)
    /\ ~FrameBitSet(PoolFor(pf), EntryFrame(cur, pg))
    /\ ~VBitSet(cur, pf, pg)
PageHeld(cur, pf, pg) ==
    /\ Mapped(Machine, cur, pg)
    /\ FrameBitSet(PoolFor(pf), EntryFrame(cur, pg))
    /\ VBitSet(cur, pf, pg)
SmallBlocks == {a \in live : a.kind = "heap" /\ a.size <= LARGE_THRESHOLD}
OnSomeFreeList(owner, pg) ==
    \E i \in 0..(DESC_CNT - 1) :
        \E k \in 1..Len(free_lists[<<owner, i>>]) : free_lists[<<owner, i>>][k].pg = pg
EntryPoints ==
    {"malloc_page", "get_kernel_pages", "get_user_pages", "get_a_page", "sys_malloc"}
LargePages(size) == DIV_ROUND_UP(size + SIZEOF_ARENA, PG_SIZE)

\* C2: the page of a small arena is held while a block of the arena is live,
\* and the sys_free that frees the last live block of the arena completes and
\* returns the page (mapping, frame, tracker bit), leaving none of the arena's
\* blocks on a free list.
C2_ArenaPageReturnedAtLastFree ==
    /\ \A a \in SmallBlocks : PageHeld(a.cur, a.pf, a.ptr.pg)
    /\ (/\ last.op = "sys_free" /\ last.arg <= LARGE_THRESHOLD
        /\ ~\E b \in SmallBlocks : b.cur = last.cur /\ b.ptr.pg = last.ptr.pg)
       => /\ panic = ""
          /\ PageReturned(last.cur, last.pf, last.ptr.pg)
          /\ ~OnSomeFreeList(DescsOf(last.cur), last.ptr.pg)

\* C3: an entry point that could not allocate a frame it needed returns NULL.
C3_ExhaustionReturnsNull ==
    (last.op \in EntryPoints /\ last.nofrm) => last.ret = NULLV

\* C5: mfree_page on a run obtained from malloc_page completes, and every
\* page of the run is then unmapped with its frame and its tracker bit free.
C5_MfreePageReleasesRun ==
    last.op = "mfree_page" =>
        /\ panic = ""
        /\ \A i \in 0..(last.arg - 1) :
              PageReturned(last.cur, last.pf, last.ptr.pg + i)

\* C7: a successful sys_malloc of size > 1024 takes, and the matching sys_free
\* gives back, exactly DIV_ROUND_UP(size + sizeof(struct arena), PG_SIZE)
\* frames of the caller's pool and as many pages of its virtual tracker.
C7_LargeFreeRestoresCounts ==
    LET now == Count(OwnerPool(last.cur))
        before == IF HasPgdir(last.cur) THEN last.u0 ELSE last.k0
    IN  /\ (last.op = "sys_malloc" /\ last.arg > LARGE_THRESHOLD /\ last.ret # NULLV
            /\ panic = "")
           => /\ now = before + LargePages(last.arg)
              /\ VCount(Machine, last.cur) = last.v0 + LargePages(last.arg)
        /\ (last.op = "sys_free" /\ last.arg > LARGE_THRESHOLD)
           => /\ panic = ""
              /\ now = before - LargePages(last.arg)
              /\ VCount(Machine, last.cur) = last.v0 - LargePages(last.arg)

\* C8: a successful sys_malloc(1024) hands out a block of the largest size
\* class from an arena with large = FALSE, and a successful sys_malloc(1025)
\* hands out arena + sizeof(struct arena) of an arena with desc = NULL and
\* large = TRUE.
C8_ThresholdBoundary ==
    (last.op = "sys_malloc" /\ last.ret # NULLV /\ panic = "") =>
        LET a == ArenaAt(Machine, last.cur, last.ret.pg)
        IN  /\ last.arg = LARGE_THRESHOLD =>
                  /\ ~a.large
                  /\ a.desc = [owner |-> DescsOf(last.cur), idx |-> DESC_CNT - 1]
                  /\ block_desc_init(a.desc.idx).block_size = LARGE_THRESHOLD
                  /\ last.ret.off >= SIZEOF_ARENA
            /\ last.arg = LARGE_THRESHOLD + 1 =>
                  /\ a.large /\ a.desc = NoDesc
                  /\ a.cnt = 1
                  /\ last.ret.off = SIZEOF_ARENA

\* C8 witness: a block of 1024 bytes is live and sys_malloc(1025) has just
\* returned an address
C8_Witness ==
    /\ last.op = "sys_malloc" /\ last.arg = LARGE_THRESHOLD + 1 /\ last.ret # NULLV
    /\ \E a \in live : a.kind = "heap" /\ a.size = LARGE_THRESHOLD /\ a.cur = last.cur

\* what the allocator manages: bitmaps, page tables, arenas, free lists, locks
managed == <<kernel_pool, user_pool, kernel_vaddr, userprog_vaddr, pde, pte,
             arenas, free_lists, locks, panic, intr_status>>

\* C11: sys_malloc(size) with size = 0 or size >= the capacity of the caller's
\* pool returns NULL, has called lock_acquire not once, and has left every
\* bitmap, page table entry, arena, free list and lock as it was.
C11_RejectedRequestTouchesNothing ==
    [][(/\ ncalls' = ncalls + 1 /\ last'.op = "sys_malloc"
        /\ (last'.arg = 0 \/ last'.arg >= CallerPoolSize(Machine, last'.cur)))
       => (/\ last'.ret = NULLV /\ last'.nlock = 0
           /\ UNCHANGED managed)]_vars

\* C11 witness: a request of the full capacity has been rejected by a caller
\* whose pool and free lists are in use
C11_Witness ==
    /\ last.op = "sys_malloc" /\ last.ret = NULLV
    /\ last.arg = CallerPoolSize(Machine, last.cur)
    /\ Count(OwnerPool(last.cur)) > 0
    /\ \E a \in live : a.cur = last.cur /\ a.kind = "heap"

PoolFrames(pool) == pool.pool_bitmap.btmp_bytes_len * 8
KindsMatch(cur, pf) ==
    (HasPgdir(cur) /\ pf = PF_USER) \/ (~HasPgdir(cur) /\ pf = PF_KERNEL)

\* C12: get_a_page halts when the pool and the kind of the caller differ;
\* when they match, for an unmapped page of the tracker's range (the base
\* page included) and a pool with a free frame, it completes, returns the
\* page, has set the tracker bit of the page and no other, and has mapped
\* the page to one frame newly taken from that pool.
C12_GetAPage ==
    last.op = "get_a_page" =>
        LET pg == TrackerBase(last.pf) + last.arg
            before == IF last.pf = PF_KERNEL THEN last.k0 ELSE last.u0
        IN  /\ ~KindsMatch(last.cur, last.pf) => panic # ""
            /\ (KindsMatch(last.cur, last.pf) /\ before < PoolFrames(PoolFor(last.pf)))
               => /\ panic = ""
                  /\ last.ret = Page(pg)
                  /\ PageHeld(last.cur, last.pf, pg)
                  /\ Count(PoolFor(last.pf)) = before + 1
                  /\ VCount(Machine, last.cur) <= last.v0 + 1

PageService == {"malloc_page", "get_kernel_pages", "get_user_pages"}
\* the tracker malloc_page(pf, ...) called by cur reserves pages in
TrackerOf(cur, pf) == IF pf = PF_KERNEL THEN kernel_vaddr ELSE userprog_vaddr[cur]
FreeFrames(pool) == PoolFrames(pool) - Count(pool)
\* the predicates above, on a machine state M
VBitSetIn(M, cur, pf, pg) ==
    IF pf = PF_KERNEL
    THEN pg - M.kernel_vaddr.vaddr_start \in M.kernel_vaddr.vaddr_bitmap.bits
    ELSE pg - M.userprog_vaddr[cur].vaddr_start
             \in M.userprog_vaddr[cur].vaddr_bitmap.bits
PageHeldIn(M, cur, pf, pg) ==
    /\ Mapped(M, cur, pg)
    /\ FrameBitSet(GetPool(M, pf), FrameOf(read_pte(M, cur, pg)))
    /\ VBitSetIn(M, cur, pf, pg)

\* C13: a call of malloc_page for pg_cnt pages that finds the virtual run but
\* only k < pg_cnt free frames returns NULL and rolls nothing back: the pg_cnt
\* tracker bits of the run are set, the k frames are marked in the pool
\* bitmap, and the first k pages of the run are mapped to k different frames
\* of the pool.
C13_NoRollback ==
    [][LET cur == last'.cur
           pf == last'.pf
           pg_cnt == last'.arg
           tracker == TrackerOf(cur, pf)
           start == bitmap_scan(tracker.vaddr_bitmap, pg_cnt)
           k == FreeFrames(PoolFor(pf))
           run == tracker.vaddr_start + start
       IN  (/\ ncalls' = ncalls + 1 /\ last'.op \in PageService
            /\ start # -1 /\ k < pg_cnt)
           => /\ last'.ret = NULLV /\ panic' = ""
              /\ \A i \in 0..(pg_cnt - 1) : VBitSetIn(Machine', cur, pf, run + i)
              /\ FreeFrames(GetPool(Machine', pf)) = 0
              /\ \A i \in 0..(k - 1) : PageHeldIn(Machine', cur, pf, run + i)
              /\ \A i, j \in 0..(k - 1) :
                    i # j => read_pte(Machine', cur, run + i)
                                 # read_pte(Machine', cur, run + j)
      ]_vars

\* C13 witness: a run of 8 pages has failed at its last page
C13_Witness ==
    /\ last.op \in PageService /\ last.ret = NULLV /\ last.nofrm /\ panic = ""
    /\ last.arg = 8
    /\ PoolFrames(PoolFor(last.pf))
          - (IF last.pf = PF_KERNEL THEN last.k0 ELSE last.u0) = 7
    /\ VCount(Machine, last.cur) = last.v0 + 8

(***************************************************************************)
(* SpecTwo: sys_malloc and sys_free called by the kernel thread and by two *)
(* user processes.                                                         *)
(***************************************************************************)
TwoSizes(cur) == IF HasPgdir(cur) THEN {LARGE_THRESHOLD, 5000}
                                  ELSE {LARGE_THRESHOLD, 30000}
RunningTwo == panic = "" /\ ncalls < MaxCalls + 2

InitTwo == InitFor(mem_bytes_total, UTasks2)

NextTwo ==
    \/ \E cur \in {KThread} \cup UTasks2 : \E size \in TwoSizes(cur) :
          RunningTwo /\ SysMallocCall(cur, size)
    \/ \E a \in live : RunningTwo /\ SysFreeCall(a)

SpecTwo == InitTwo /\ [][NextTwo]_vars

\* the bytes of a live allocation: from its address up to the end of its
\* block (small) or of its last page (large), as <<page, offset>> pairs
HeapLive == {a \in live : a.kind = "heap"}
BlockLo(a) == <<a.ptr.pg, a.ptr.off>>
BlockHi(a) ==
    IF a.size > LARGE_THRESHOLD
    THEN <<a.ptr.pg + a.n, 0>>
    ELSE <<a.ptr.pg, a.ptr.off + block_desc_init(desc_search(a.size)).block_size>>
AddrLeq(x, y) == x[1] < y[1] \/ (x[1] = y[1] /\ x[2] <= y[2])
OnFreeList(a) ==
    \E i \in 0..(DESC_CNT - 1) : InSeq(a.ptr, free_lists[<<DescsOf(a.cur), i>>])

\* C14: two live allocations of sys_malloc by the same owner do not overlap,
\* no live allocation overlaps the arena header of the page of a live
\* allocation, sys_malloc never returns an allocation that is live, and no
\* live small block is an element of a free list of its owner.
C14_LiveBlocksDisjoint ==
    /\ \A a, b \in HeapLive :
          (a # b /\ a.cur = b.cur) =>
              AddrLeq(BlockHi(a), BlockLo(b)) \/ AddrLeq(BlockHi(b), BlockLo(a))
    /\ \A a, b \in HeapLive :
          a.cur = b.cur =>
              \/ AddrLeq(BlockHi(b), <<a.ptr.pg, 0>>)
              \/ AddrLeq(<<a.ptr.pg, SIZEOF_ARENA>>, BlockLo(b))
    /\ (last.op = "sys_malloc" /\ last.ret # NULLV /\ panic = "") => last.fresh
    /\ \A a \in HeapLive : a.size <= LARGE_THRESHOLD => ~OnFreeList(a)

InPool(pool, frame) ==
    /\ frame >= pool.phy_addr_start
    /\ frame < pool.phy_addr_start + PoolFrames(pool) * PG_SIZE

\* C15: every present directory entry that page_table_add has written refers
\* to a frame of the kernel pool whose bit is set in the kernel pool bitmap,
\* that no other directory entry refers to and that no present table entry
\* maps as a data page.
C15_DirectoryEntryOwnsKernelFrame ==
    \A k \in DOMAIN pde :
        Present(pde[k]) =>
            /\ InPool(kernel_pool, FrameOf(pde[k]))
            /\ FrameBitSet(kernel_pool, FrameOf(pde[k]))
            /\ \A k2 \in DOMAIN pde :
                  (k2 # k /\ Present(pde[k2])) => FrameOf(pde[k2]) # FrameOf(pde[k])
            /\ \A e \in DOMAIN pte :
                  Present(pte[e]) => FrameOf(pte[e]) # FrameOf(pde[k])

\* C16: the assertion of page_table_add that the table entry it is about to
\* write is not present never fires.
C16_NoOverlappingMapping == panic # "page_table_add: pte present"

SmallLive == {a \in HeapLive : a.size <= LARGE_THRESHOLD}
ClassOf(a) == desc_search(a.size)
\* the blocks of the arena page of a that are on the free list of its class
FreeOfArena(a) ==
    LET q == free_lists[<<DescsOf(a.cur), ClassOf(a)>>]
    IN  Cardinality({i \in 1..Len(q) : q[i].pg = a.ptr.pg})
\* the live blocks handed out of the arena page of a
OutOfArena(a) ==
    Cardinality({b \in SmallLive : b.cur = a.cur /\ b.ptr.pg = a.ptr.pg})

\* C17: between calls, the cnt of every arena that has a live small block is
\* the number of its blocks on the free list of its class, which is
\* blocks_per_arena less the number of its blocks handed out; when the only
\* two live blocks of a class left blocks_per_arena - 2 blocks on its free
\* list, they are of the same arena and its cnt is blocks_per_arena - 2.
C17_ArenaCountMatchesFreeList ==
    panic = "" =>
        /\ \A a \in SmallLive :
              /\ ArenaAt(Machine, a.cur, a.ptr.pg).cnt = FreeOfArena(a)
              /\ FreeOfArena(a)
                    = block_desc_init(ClassOf(a)).blocks_per_arena - OutOfArena(a)
        /\ \A a, b \in SmallLive :
              (/\ a # b /\ a.cur = b.cur /\ ClassOf(a) = ClassOf(b)
               /\ \A c \in SmallLive :
                     (c.cur = a.cur /\ ClassOf(c) = ClassOf(a)) => c \in {a, b}
               /\ Len(free_lists[<<DescsOf(a.cur), ClassOf(a)>>])
                     = block_desc_init(ClassOf(a)).blocks_per_arena - 2)
              => /\ a.ptr.pg = b.ptr.pg
                 /\ ArenaAt(Machine, a.cur, a.ptr.pg).cnt
                       = block_desc_init(ClassOf(a)).blocks_per_arena - 2

\* the thread that uses the descriptor array of owner
TaskOf(owner) == IF owner = "kernel" THEN KThread ELSE owner

\* C19: a call of sys_malloc or sys_free changes no free list but those of
\* the caller's own descriptor array, and every block on a free list of an
\* owner lies in a page mapped in the owner's address space whose arena
\* header names a descriptor of that owner.
C19_FreeListsNotShared ==
    /\ [][\A k \in DOMAIN free_lists :
             (/\ ncalls' = ncalls + 1 /\ last'.op \in {"sys_malloc", "sys_free"}
              /\ k[1] # DescsOf(last'.cur))
             => free_lists'[k] = free_lists[k]]_vars
    /\ [](panic = "" =>
            \A k \in DOMAIN free_lists :
                \A i \in 1..Len(free_lists[k]) :
                    /\ Mapped(Machine, TaskOf(k[1]), free_lists[k][i].pg)
                    /\ ArenaAt(Machine, TaskOf(k[1]), free_lists[k][i].pg).desc
                          = [owner |-> k[1], idx |-> k[2]])

(***************************************************************************)
(* SpecPool: palloc and pfree called directly on one pool, pfree only on   *)
(* frames that are live.  live is the set of frames handed out.            *)
(***************************************************************************)
AllSet(pool) == pool.pool_bitmap.bits = 0..(pool.pool_bitmap.btmp_bytes_len * 8 - 1)
ThePool == IF last.pf = PF_KERNEL THEN kernel_pool ELSE user_pool

InitPool == InitMachine

Palloc(pf) ==
    /\ last.pf \in {0, pf}
    /\ LET r == palloc(IF pf = PF_KERNEL THEN kernel_pool ELSE user_pool)
       IN  /\ kernel_pool' = IF pf = PF_KERNEL THEN r.pool ELSE kernel_pool
           /\ user_pool' = IF pf = PF_USER THEN r.pool ELSE user_pool
           /\ live' = IF r.ret = NULL THEN live ELSE live \cup {r.ret}
           /\ last' = [NoCall EXCEPT !.op = "palloc", !.pf = pf, !.frame = r.ret,
                          !.fresh = r.ret \notin live,
                          !.full = AllSet(IF pf = PF_KERNEL THEN kernel_pool
                                                            ELSE user_pool)]
    /\ UNCHANGED <<kernel_vaddr, userprog_vaddr, pde, pte, arenas, free_lists,
                   locks, panic, ncalls, pc, loc, intr_status, running>>

Pfree(pg_phy_addr) ==
    /\ pg_phy_addr \in live
    /\ kernel_pool' = pfree(kernel_pool, user_pool, pg_phy_addr).kernel_pool
    /\ user_pool' = pfree(kernel_pool, user_pool, pg_phy_addr).user_pool
    /\ live' = live \ {pg_phy_addr}
    /\ last' = [NoCall EXCEPT !.op = "pfree", !.pf = last.pf, !.frame = pg_phy_addr]
    /\ UNCHANGED <<kernel_vaddr, userprog_vaddr, pde, pte, arenas, free_lists,
                   locks, panic, ncalls, pc, loc, intr_status, running>>

NextPool ==
    \/ \E pf \in {PF_KERNEL, PF_USER} : Palloc(pf)
    \/ \E f \in live : Pfree(f)

SpecPool == InitPool /\ [][NextPool]_vars

\* C1: under any sequence of palloc and pfree of live frames on one pool, the
\* set bits of the pool bitmap are exactly the live frames (so their numbers
\* agree), a frame returned by palloc was not live and is phy_addr_start +
\* bit_index * PG_SIZE for a bit that was clear, and palloc returns NULL
\* exactly when every bit of the bitmap was set.
C1_PoolBitmapMatchesLive ==
    last.op \in {"palloc", "pfree"} =>
        /\ Cardinality(ThePool.pool_bitmap.bits) = Cardinality(live)
        /\ live = {ThePool.phy_addr_start + i * PG_SIZE : i \in ThePool.pool_bitmap.bits}
        /\ last.op = "palloc" =>
              /\ (last.frame = NULL) <=> last.full
              /\ last.frame # NULL => last.fresh /\ last.frame \in live

\* C1 witness: a pool of 8 frames has all 8 live and the 9th palloc returned NULL
C1_Witness ==
    /\ last.op = "palloc" /\ last.frame = NULL
    /\ Cardinality(live) = 8

(***************************************************************************)
(* SpecClass: the size class search of sys_malloc applied to every size of *)
(* the small path.                                                         *)
(***************************************************************************)
Classify ==
    /\ last.op = "none"
    /\ \E size \in 1..LARGE_THRESHOLD :
          last' = [NoCall EXCEPT !.op = "desc_search", !.arg = size,
                                 !.frame = desc_search(size)]
    /\ UNCHANGED <<kernel_pool, user_pool, kernel_vaddr, userprog_vaddr, pde, pte,
                   arenas, free_lists, locks, panic, live, ncalls, pc, loc,
                   intr_status, running>>

SpecClass == Init /\ [][Classify]_vars

\* C9: for every size from 1 to 1024 the search stops at a descriptor of the
\* array, the smallest one whose block_size is >= size, and the block size
\* chosen is <= the block size chosen for every larger size up to 1024.
C9_SmallestClassThatFits ==
    last.op = "desc_search" =>
        /\ last.frame \in 0..(DESC_CNT - 1)
        /\ block_desc_init(last.frame).block_size >= last.arg
        /\ \A j \in 0..(last.frame - 1) : block_desc_init(j).block_size < last.arg
        /\ \A s2 \in (last.arg + 1)..LARGE_THRESHOLD :
              block_desc_init(last.frame).block_size
                  <= block_desc_init(desc_search(s2)).block_size

\* C9 witness: a size on a class boundary (32) and the size after it (33)
\* have been classified
C9_Witness ==
    /\ last.op = "desc_search" /\ last.arg \in {32, 33}
    /\ last.frame = IF last.arg = 32 THEN 1 ELSE 2

(***************************************************************************)
(* SpecMap: page_table_add called directly, on a machine whose kernel pool *)
(* may have been filled by get_kernel_pages.                               *)
(***************************************************************************)
\* pages and frames handed to page_table_add
MapPages(cur) ==
    IF HasPgdir(cur)
    THEN {USER_VADDR_START_PG, USER_VADDR_START_PG + 1, USER_VADDR_START_PG + 1024}
    ELSE {K_HEAP_START_PG, K_HEAP_START_PG + 1}
MapFrames ==
    {kernel_pool.phy_addr_start + 5 * PG_SIZE, user_pool.phy_addr_start,
     user_pool.phy_addr_start + 3 * PG_SIZE, kernel_pool.phy_addr_start}
Offsets == {0, 1, 2048, PG_SIZE - 1}

PageTableAdd(cur, pg, page_phyaddr) ==
    /\ Running
    /\ Installed(page_table_add(Machine, cur, pg, page_phyaddr),
                 Call("page_table_add", cur, PFOf(cur), page_phyaddr, Page(pg), NULLV,
                      Machine))

NextMap ==
    \/ \E cur \in Tasks : \E pg \in MapPages(cur), p \in MapFrames :
          PageTableAdd(cur, pg, p)
    \/ GetPages(KThread, PF_KERNEL, 8)

SpecMap == Init /\ [][NextMap]_vars

\* C10: right after page_table_add(v, p) has completed, addr_v2p(v') is
\* p + (v' & 0xfff) for the addresses v' of the page of v.
C10_TranslateAfterInstall ==
    (last.op = "page_table_add" /\ panic = "") =>
        \A off \in Offsets :
            addr_v2p(Machine, last.cur, last.ptr.pg, off) = last.arg + off

\* C10 witness: page_table_add has just created the directory entry of a user
\* page, after another call found the directory entry of a kernel page present
C10_Witness ==
    /\ last.op = "page_table_add" /\ panic = "" /\ HasPgdir(last.cur)
    /\ Count(kernel_pool) = last.k0 + 1
    /\ Mapped(Machine, KThread, K_HEAP_START_PG)

(***************************************************************************)
(* SpecBig: sys_malloc on machines of 32 MB and more, with sizes up to the *)
(* capacity of the caller's pool.                                          *)
(***************************************************************************)
\* RAM sizes: 32 MB less 16 pages, 32 MB, 64 MB, 128 MB
BigMachines == {33488896, 33554432, 67108864, 134217728}
BigSizes(cap) ==
    {600, LARGE_THRESHOLD, 5000, cap - 11, cap - 5, cap - 1}

InitBig == \E all_mem \in BigMachines : InitWith(all_mem)

NextBig ==
    \E cur \in Tasks : \E size \in BigSizes(CallerPoolSize(Machine, cur)) :
        SysMalloc(cur, size)

SpecBig == InitBig /\ [][NextBig]_vars

\* C4: sys_malloc called with 0 < size < capacity of the caller's pool does
\* not halt the system.
C4_SysMallocNeverHalts ==
    (/\ last.op = "sys_malloc"
     /\ last.arg > 0 /\ last.arg < CallerPoolSize(Machine, last.cur))
    => panic = ""

(***************************************************************************)
(* SpecLock: get_kernel_pages(1) and get_user_pages(1) run by two threads, *)
(* one step per lock operation, bitmap_scan, bitmap_set and page table     *)
(* write, so that the threads interleave as the scheduler allows.          *)
(***************************************************************************)
Step(M, t, next_pc, locals) ==
    /\ Install(M)
    /\ pc' = [pc EXCEPT ![t] = next_pc]
    /\ loc' = [loc EXCEPT ![t] = locals]
    /\ UNCHANGED <<live, last, ncalls>>

\* lock_acquire(&pool.lock): the caller waits while another thread holds it
LockAcquire(t) ==
    /\ Running /\ pc[t] = "idle"
    /\ locks[PoolOf(PFOf(t))] = ""
    /\ Step(lock_acquire(Machine, t, PoolOf(PFOf(t))), t, "vaddr_get", NoLocal)

\* malloc_page: vaddr_get(pf, 1)
VaddrGet(t) ==
    /\ Running /\ pc[t] = "vaddr_get"
    /\ LET v == vaddr_get(Machine, t, PFOf(t), 1)
       IN  Step(v.M, t, IF v.ret = NULL THEN "lock_release" ELSE "bitmap_scan",
                [NoLocal EXCEPT !.pg = v.ret])

\* palloc(mem_pool): bitmap_scan
PallocScan(t) ==
    /\ Running /\ pc[t] = "bitmap_scan"
    /\ LET bit_idx == bitmap_scan(GetPool(Machine, PFOf(t)).pool_bitmap, 1)
       IN  IF bit_idx = -1
           THEN Step(Machine, t, "lock_release", [loc[t] EXCEPT !.pg = NULL])
           ELSE Step(Machine, t, "bitmap_set",
                     [loc[t] EXCEPT !.bit_idx = bit_idx,
                                    !.scanning = PoolOf(PFOf(t))])

\* palloc(mem_pool): bitmap_set and the frame address
PallocSet(t) ==
    /\ Running /\ pc[t] = "bitmap_set"
    /\ LET m_pool == GetPool(Machine, PFOf(t))
       IN  Step(SetPool(Machine, PFOf(t),
                        [m_pool EXCEPT !.pool_bitmap =
                                           bitmap_set(@, loc[t].bit_idx, 1)]),
                t, "page_table_add",
                [loc[t] EXCEPT !.page_phyaddr =
                                   loc[t].bit_idx * PG_SIZE + m_pool.phy_addr_start,
                               !.scanning = ""])

\* page_table_add: the test of *pde; the entry is written when the table
\* exists, else palloc(&kernel_pool) starts with its bitmap_scan
PdeTest(t) ==
    /\ Running /\ pc[t] = "page_table_add"
    /\ IF Present(read_pde(Machine, t, loc[t].pg))
       THEN Step(page_table_add(Machine, t, loc[t].pg, loc[t].page_phyaddr),
                 t, "lock_release", loc[t])
       ELSE Step(Machine, t, "pde_bitmap_set",
                 [loc[t] EXCEPT !.pde_bit_idx =
                                    bitmap_scan(kernel_pool.pool_bitmap, 1),
                                !.scanning = "kernel"])

\* page_table_add: the rest of palloc(&kernel_pool), then *pde, memset, *pte
PdeSet(t) ==
    /\ Running /\ pc[t] = "pde_bitmap_set"
    /\ LET bit_idx == loc[t].pde_bit_idx
           pde_phyaddr == IF bit_idx = -1 THEN NULL
                          ELSE bit_idx * PG_SIZE + kernel_pool.phy_addr_start
           M1 == [Machine EXCEPT
                     !.kernel_pool.pool_bitmap =
                         IF bit_idx = -1 THEN @ ELSE bitmap_set(@, bit_idx, 1),
                     !.nofrm = @ \/ (bit_idx = -1),
                     !.pde = Put(@, pde_ptr(t, loc[t].pg), pde_phyaddr + PG_ATTR)]
           M2 == zero_frame(M1, pde_phyaddr)
       IN  Step([M2 EXCEPT !.pte = Put(@, pte_ptr(M2, t, loc[t].pg),
                                       loc[t].page_phyaddr + PG_ATTR)],
                t, "lock_release",
                [loc[t] EXCEPT !.pde_phyaddr = pde_phyaddr, !.scanning = ""])

\* memset of the page when vaddr != NULL, lock_release, return
LockRelease(t) ==
    /\ Running /\ pc[t] = "lock_release"
    /\ Install(lock_release(IF loc[t].pg # NULL
                            THEN zero_pages(Machine, t, loc[t].pg, 1)
                            ELSE Machine,
                            PoolOf(PFOf(t))))
    /\ pc' = [pc EXCEPT ![t] = "idle"]
    /\ last' = [Call(IF PFOf(t) = PF_KERNEL THEN "get_kernel_pages"
                                             ELSE "get_user_pages",
                     t, PFOf(t), 1, NULLV, Page(loc[t].pg), Machine)
                  EXCEPT !.frame = loc[t].page_phyaddr]
    /\ ncalls' = ncalls + 1
    /\ UNCHANGED <<live, loc>>

NextLock ==
    \E t \in Tasks :
        \/ LockAcquire(t)
        \/ VaddrGet(t)
        \/ PallocScan(t)
        \/ PallocSet(t)
        \/ PdeTest(t)
        \/ PdeSet(t)
        \/ LockRelease(t)

SpecLock == Init /\ [][NextLock]_vars

\* the frames the call in progress of t has taken so far
FramesTaken(t) ==
    {f \in {loc[t].page_phyaddr, loc[t].pde_phyaddr} : f # NULL /\ pc[t] # "idle"}

\* C6: a thread that is between bitmap_scan and bitmap_set on the frame
\* bitmap of a pool holds the lock of that pool, and two threads with calls
\* in progress have not taken the same frame.
C6_BitmapUnderPoolLock ==
    /\ \A t \in Tasks :
          loc[t].scanning # "" => locks[loc[t].scanning] = t
    /\ \A t1, t2 \in Tasks :
          t1 # t2 => FramesTaken(t1) \cap FramesTaken(t2) = {}


(***************************************************************************)
(* SpecIntr: the small path of sys_malloc run by the threads of one        *)
(* processor, one step per turn of the partition loop.  The timer hands    *)
(* the processor to another thread only while interrupts are on.           *)
(***************************************************************************)
IntrSizes == {512, LARGE_THRESHOLD}

DescOf(t) == [owner |-> DescsOf(t), idx |-> loc[t].desc_idx]

\* where sys_malloc stands once it holds the lock (machine M1) and, the free
\* list being empty, sys_malloc_arena gave r
Entered(t, size, desc, M1, r) ==
    IF M1.free_lists[<<desc.owner, desc.idx>>] # <<>>
    THEN Step(M1, t, "pop", [NoLocal EXCEPT !.size = size, !.desc_idx = desc.idx,
                                            !.intr0 = intr_status])
    ELSE IF Halted(r.M)
    THEN Step(r.M, t, "idle", NoLocal)
    ELSE IF r.ret = NULL
    THEN Installed(lock_release(r.M, PoolOf(PFOf(t))),
                   Call("sys_malloc", t, PFOf(t), size, NULLV, NULLV, r.M))
    ELSE Step(r.M, t, "partition",
              [NoLocal EXCEPT !.size = size, !.desc_idx = desc.idx,
                              !.intr0 = intr_status, !.a = r.ret,
                              !.old_status = r.old_status])

\* sys_malloc from its entry to the partition loop, or to the pop when the
\* free list has a block; the call returns NULL here when no page is left
SmallEnter(t, size) ==
    /\ Running /\ running = t /\ pc[t] = "idle"
    /\ size > 0 /\ size < CallerPoolSize(Machine, t) /\ size <= LARGE_THRESHOLD
    /\ locks[PoolOf(PFOf(t))] = ""
    /\ Entered(t, size, [owner |-> DescsOf(t), idx |-> desc_search(size)],
               lock_acquire(Machine, t, PoolOf(PFOf(t))),
               sys_malloc_arena(lock_acquire(Machine, t, PoolOf(PFOf(t))), t,
                                [owner |-> DescsOf(t), idx |-> desc_search(size)]))

\* one turn of the partition loop
SplitBlock(t) ==
    /\ Running /\ running = t /\ pc[t] = "partition"
    /\ loc[t].block_idx < block_desc_init(loc[t].desc_idx).blocks_per_arena
    /\ Step(split_block(Machine, DescOf(t), loc[t].a, loc[t].block_idx),
            t, "partition", [loc[t] EXCEPT !.block_idx = @ + 1])

\* the end of the loop: intr_set_status(old_status)
SplitDone(t) ==
    /\ Running /\ running = t /\ pc[t] = "partition"
    /\ loc[t].block_idx >= block_desc_init(loc[t].desc_idx).blocks_per_arena
    /\ Step(intr_set_status(Machine, loc[t].old_status), t, "pop", loc[t])

\* the pop of a block, its memset, a->cnt--, lock_release and the return
SmallPop(t) ==
    /\ Running /\ running = t /\ pc[t] = "pop"
    /\ LET r == sys_malloc_pop(Machine, t, <<DescsOf(t), loc[t].desc_idx>>)
           a == [Alloc("heap", t, PFOf(t), 1, loc[t].size) EXCEPT !.ptr = r.ret]
       IN  /\ Install(r.M)
           /\ last' = Call("sys_malloc", t, PFOf(t), loc[t].size, NULLV, r.ret, r.M)
           /\ live' = IF r.ret # NULLV /\ ~Halted(r.M) THEN live \cup {a} ELSE live
    /\ ncalls' = ncalls + 1
    /\ pc' = [pc EXCEPT ![t] = "idle"]
    /\ loc' = [loc EXCEPT ![t] = NoLocal]

\* a timer interrupt: the scheduler switches to thread t, which goes on with
\* the interrupt flag it was switched out with
Schedule(t) ==
    /\ Running /\ intr_status = "INTR_ON" /\ t # running
    /\ running' = t
    /\ UNCHANGED <<kernel_pool, user_pool, kernel_vaddr, userprog_vaddr, pde, pte,
                   arenas, free_lists, locks, panic, live, last, ncalls, pc, loc,
                   intr_status>>

InitIntr ==
    /\ InitMem(mem_bytes_total, UTasks)
    /\ intr_status \in {"INTR_ON", "INTR_OFF"}
    /\ running \in Tasks

NextIntr ==
    \E t \in Tasks :
        \/ \E size \in IntrSizes : SmallEnter(t, size)
        \/ SplitBlock(t)
        \/ SplitDone(t)
        \/ SmallPop(t)
        \/ Schedule(t)

SpecIntr == InitIntr /\ [][NextIntr]_vars

\* C18: while sys_malloc partitions a new arena into blocks interrupts are
\* off and no other thread runs, and once the partition is over the interrupt
\* flag is what it was when the call began.
C18_PartitionWithInterruptsOff ==
    \A t \in Tasks :
        /\ pc[t] = "partition" => (intr_status = "INTR_OFF" /\ running = t)
        /\ (pc[t] = "pop" /\ running = t) => intr_status = loc[t].intr0

\* a thread that entered with interrupts on has partitioned a whole arena
C18_Witness ==
    \E t \in Tasks :
        /\ pc[t] = "pop" /\ running = t /\ panic = ""
        /\ loc[t].intr0 = "INTR_ON" /\ intr_status = "INTR_ON"
        /\ loc[t].block_idx = block_desc_init(loc[t].desc_idx).blocks_per_arena
        /\ Len(free_lists[<<DescsOf(t), loc[t].desc_idx>>]) >= loc[t].block_idx


(***************************************************************************)
(* SpecLive: calls of sys_malloc, sys_free, get_kernel_pages,              *)
(* get_user_pages and get_a_page by a kernel thread and two user           *)
(* processes.  A caller waits at lock_acquire while another thread holds   *)
(* the pool lock; the scheduler is fair to waiting and to running threads. *)
(***************************************************************************)
LiveSizes == {0, LARGE_THRESHOLD}
\* page counts asked of get_kernel_pages and get_user_pages: a whole pool
LiveRuns == {8}
LiveTasks == {KThread} \cup UTasks2

\* the calls thread t may make in the current state: the user processes use
\* the heap and get_user_pages, the kernel thread the kernel page services
LiveCalls(t) ==
    IF HasPgdir(t)
    THEN {Req("sys_malloc", PFOf(t), size, NoReq.a) : size \in LiveSizes}
         \cup {Req("sys_free", PFOf(t), a.size, a) :
                  a \in {x \in live : x.cur = t /\ x.kind = "heap"}}
         \cup {Req("get_user_pages", PF_USER, n, NoReq.a) : n \in LiveRuns}
    ELSE {Req("get_kernel_pages", PF_KERNEL, n, NoReq.a) : n \in LiveRuns}
         \cup {Req("get_a_page", PF_KERNEL, TrackerBase(PF_KERNEL) + 3, NoReq.a) :
                  x \in {y \in {1} : ~Mapped(Machine, t, TrackerBase(PF_KERNEL) + 3)}}

\* the call returns before any lock_acquire
RejectedEarly(t, c) ==
    c.op = "sys_malloc" /\ ~(c.arg > 0 /\ c.arg < CallerPoolSize(Machine, t))

\* the lock the call asks for
LockOf(t, c) == PoolOf(c.pf)

\* the call c of thread t run on machine M
Handle(M, t, c) ==
    CASE c.op = "sys_malloc" -> sys_malloc(M, t, c.arg)
      [] c.op = "sys_free" -> [M |-> sys_free(M, t, c.a.ptr), ret |-> NULLV]
      [] c.op = "get_kernel_pages" -> PagePtr(get_kernel_pages(M, t, c.arg))
      [] c.op = "get_user_pages" -> PagePtr(get_user_pages(M, t, c.arg))
      [] c.op = "get_a_page" -> PagePtr(get_a_page(M, t, c.pf, c.arg))

\* the state after the call c of thread t has returned r.ret; a call that
\* halts the system does not return
LiveReturned(t, c, r) ==
    /\ Install(r.M)
    /\ last' = Call(c.op, t, c.pf, c.arg, c.a.ptr, r.ret, r.M)
    /\ live' = IF Halted(r.M) THEN live
               ELSE IF c.op = "sys_malloc" /\ r.ret # NULLV
               THEN live \cup {[Alloc("heap", t, c.pf, 1, c.arg) EXCEPT !.ptr = r.ret]}
               ELSE IF c.op = "sys_free" THEN live \ {c.a}
               ELSE live
    /\ pc' = IF Halted(r.M) THEN pc ELSE [pc EXCEPT ![t] = "idle"]
    /\ loc' = IF Halted(r.M) THEN loc ELSE [loc EXCEPT ![t] = NoLocal]

\* thread t calls c: it returns at once when the call is rejected before
\* lock_acquire, else it stands at lock_acquire
LiveRequest(t, c) ==
    /\ Running /\ pc[t] = "idle"
    /\ ncalls' = ncalls + 1
    /\ IF RejectedEarly(t, c)
       THEN LiveReturned(t, c, Handle(Machine, t, c))
       ELSE /\ pc' = [pc EXCEPT ![t] = "waiting"]
            /\ loc' = [loc EXCEPT ![t] =
                          [NoLocal EXCEPT !.call = c,
                                          !.waited = locks[LockOf(t, c)] # ""]]
            /\ UNCHANGED <<kernel_pool, user_pool, kernel_vaddr, userprog_vaddr,
                           pde, pte, arenas, free_lists, locks, panic, live, last,
                           intr_status, running>>

\* lock_acquire returns once no other thread holds the lock
LiveAcquire(t) ==
    /\ panic = "" /\ pc[t] = "waiting"
    /\ locks[LockOf(t, loc[t].call)] = ""
    /\ Step(lock_acquire(Machine, t, LockOf(t, loc[t].call)), t, "in", loc[t])

\* the body of the call up to its return
LiveReturn(t) ==
    /\ panic = "" /\ pc[t] = "in"
    /\ LiveReturned(t, loc[t].call, Handle(Machine, t, loc[t].call))
    /\ UNCHANGED ncalls

InitLive ==
    /\ InitMem(mem_bytes_total, UTasks2)
    /\ intr_status = "INTR_ON"
    /\ running = KThread

NextLive ==
    \E t \in LiveTasks :
        \/ \E c \in LiveCalls(t) : LiveRequest(t, c)
        \/ LiveAcquire(t)
        \/ LiveReturn(t)

\* LiveReturn(t) can take a step exactly in these states
ReturnEnabled(t) == panic = "" /\ pc[t] = "in"

\* the scheduler: a thread whose lock is free again and again gets it, which
\* is SF_vars(LiveAcquire(t)), and a thread inside a call goes on running,
\* which is WF_vars(LiveReturn(t)) with ENABLED written as ReturnEnabled(t)
SpecLive ==
    /\ InitLive /\ [][NextLive]_vars
    /\ \A t \in LiveTasks :
          /\ SF_vars(LiveAcquire(t))
          /\ ([]<>(~ReturnEnabled(t)) \/ []<><<LiveReturn(t)>>_vars)

\* C20: a thread that is not inside a call holds no pool lock, a thread at
\* lock_acquire holds none, a thread inside a call holds the lock of its call
\* and no other, and no call has called lock_acquire twice; so a thread that
\* waits for a pool lock gets it and a thread inside a call returns, unless
\* the system halts.
C20_LocksReleasedAndCallsReturn ==
    /\ [](\A t \in LiveTasks : \A k \in DOMAIN locks :
             locks[k] = t <=> (pc[t] = "in" /\ k = LockOf(t, loc[t].call)))
    /\ [](last.nlock <= 1)
    /\ \A t \in LiveTasks :
          /\ (pc[t] = "waiting") ~> (pc[t] = "in" \/ panic # "")
          /\ (pc[t] = "in") ~> (pc[t] = "idle" \/ panic # "")

\* a thread found the lock held by another thread, waited, and now holds it
C20_Witness ==
    \E t \in LiveTasks : pc[t] = "in" /\ loc[t].waited /\ panic = ""


(***************************************************************************)
(* SpecInit: mem_pool_init applied to total memory sizes from used_mem to  *)
(* the 512 MB that four pages of bitmap stand for.                         *)
(***************************************************************************)
MAX_MEM == 536870912

\* free page counts around every power of two up to 2^16, and up to 512 MB
InitPages ==
    UNION {{Pow2(k) - 1, Pow2(k), Pow2(k) + 1} : k \in 0..16}
    \cup {98304, 130559, (MAX_MEM - used_mem) \div PG_SIZE}

\* total memory sizes: whole pages and a part of a page above used_mem
InitSizes ==
    {m \in {used_mem + p * PG_SIZE + r : p \in InitPages, r \in {0, 1, PG_SIZE - 1}} :
        m <= MAX_MEM}

MemPoolInit ==
    /\ last.op = "none"
    /\ \E all_mem \in InitSizes :
          /\ kernel_pool' = mem_pool_init(all_mem).kernel_pool
          /\ user_pool' = mem_pool_init(all_mem).user_pool
          /\ kernel_vaddr' = mem_pool_init(all_mem).kernel_vaddr
          /\ last' = [NoCall EXCEPT !.op = "mem_pool_init", !.arg = all_mem]
    /\ UNCHANGED <<userprog_vaddr, pde, pte, arenas, free_lists, locks, panic,
                   live, ncalls, pc, loc, intr_status, running>>

SpecInit == Init /\ [][MemPoolInit]_vars

\* C21: for all_mem from used_mem to 512 MB the pages of the two pools add up
\* to floor((all_mem - used_mem) / PG_SIZE), the user pool starts where the
\* kernel pool ends, and no frame bitmap has more bits than its pool has
\* frames.
C21_PoolsCoverFreeMemory ==
    last.op = "mem_pool_init" =>
        /\ kernel_pool.pool_size \div PG_SIZE + user_pool.pool_size \div PG_SIZE
             = (last.arg - used_mem) \div PG_SIZE
        /\ kernel_pool.phy_addr_start = used_mem
        /\ user_pool.phy_addr_start
             = kernel_pool.phy_addr_start + kernel_pool.pool_size
        /\ kernel_pool.pool_bitmap.btmp_bytes_len * 8
             <= kernel_pool.pool_size \div PG_SIZE
        /\ user_pool.pool_bitmap.btmp_bytes_len * 8
             <= user_pool.pool_size \div PG_SIZE

==============================================================================
